---- MODULE Spec2Model ----
(***************************************************************************)
(* State-machine model of fractal-matrix-client                            *)
(* (src/fractal/matrix/async_client.py, src/fractal/matrix/utils.py,       *)
(* src/fractal/matrix/exceptions.py).                                      *)
(*                                                                         *)
(* Python strings are TLA+ strings (TLC evaluates Len, \o and SubSeq on    *)
(* them); Python's None is the reserved string None.                       *)
(***************************************************************************)
EXTENDS Integers, Sequences, FiniteSets, TLC

VARIABLES
    env,      \* os.environ: MATRIX_HOMESERVER_URL, MATRIX_ID, MATRIX_ACCESS_TOKEN
    inst,     \* the MatrixClient instance the scopes / decorated calls share
    handles,  \* every FractalAsyncClient constructed so far, in creation order
    task,     \* the coroutines: scope invocations and direct discovery calls
    inv,      \* the last FractalAsyncClient.invite call and what it did
    client,   \* a FractalAsyncClient the other wrapper operations are called on
    call,     \* the last of those calls and what it did
    creds     \* the credential file matrix.creds.yaml of the CLI

vars == <<env, inst, handles, task, inv, client, call, creds>>

---------------------------------------------------------------------------
(* Bounds of the model *)

\* number of overlapping invocations of the decorated function / scope
NumTasks == 2
\* interpreter recursion limit, scaled down (sys.getrecursionlimit() frames)
RecursionLimit == 3
\* longest user id handed to invite
MaxIdLen == 6
\* longest user id handed to create_or_modify_user
MaxAdminIdLen == 4

---------------------------------------------------------------------------
(* Python values *)

None == "None"

\* bool(x) for an Optional[str]
Truthy(x) == x # None /\ x # ""

\* `a or b` on Optional[str] operands
PyOr(a, b) == IF Truthy(a) THEN a ELSE b

\* os.environ.get(key, default): the default only when the key is unset
EnvGet(v, default) == IF v = None THEN default ELSE v

Char(s, i) == SubSeq(s, i, i)

\* `p in s` on strings
IsSubstr(p, s) ==
    \E i \in 1..(Len(s) - Len(p) + 1) : SubSeq(s, i, i + Len(p) - 1) = p

\* s.find(c) + 1 for a one-character c (0 when absent)
IndexOf(c, s) ==
    IF \E i \in 1..Len(s) : Char(s, i) = c
    THEN CHOOSE i \in 1..Len(s) :
            Char(s, i) = c /\ \A j \in 1..(i - 1) : Char(s, j) # c
    ELSE 0

\* s.count(c) for a one-character c
CountOf(c, s) == Cardinality({i \in 1..Len(s) : Char(s, i) = c})

Min(S) == CHOOSE m \in S : \A n \in S : m <= n

LowerChars ==
    {"a", "b", "c", "d", "e", "f", "g", "h", "i", "j", "k", "l", "m",
     "n", "o", "p", "q", "r", "s", "t", "u", "v", "w", "x", "y", "z"}

UpperChars ==
    {"A", "B", "C", "D", "E", "F", "G", "H", "I", "J", "K", "L", "M",
     "N", "O", "P", "Q", "R", "S", "T", "U", "V", "W", "X", "Y", "Z"}

DigitChars == {"0", "1", "2", "3", "4", "5", "6", "7", "8", "9"}

\* str.islower(): at least one cased character and no uppercase one
IsLower(s) ==
    /\ \E i \in 1..Len(s) : Char(s, i) \in LowerChars
    /\ \A i \in 1..Len(s) : Char(s, i) \notin UpperChars

\* s.split(sep) for a one-character sep, as a sequence of strings
RECURSIVE Split(_, _)
Split(s, sep) ==
    LET i == IndexOf(sep, s)
    IN  IF i = 0 THEN <<s>>
        ELSE <<SubSeq(s, 1, i - 1)>> \o Split(SubSeq(s, i + 1, Len(s)), sep)

---------------------------------------------------------------------------
(* Exceptions: the type raised and the text of str(e) *)

NoExc == [type |-> "", msg |-> ""]

KeyErrorMatrixClient ==
    [type |-> "KeyError",
     msg  |-> "Environment variable MATRIX_HOMESERVER_URL and MATRIX_ID must be set if    not passed explicitly to the MatrixClient context manager decorator."]

WellKnownNotFoundException ==
    [type |-> "WellKnownNotFoundException",
     msg  |-> "Your Matrix server's .well-known/matrix/client was not found."]

UnknownDiscoveryInfoException(reason) ==
    [type |-> "UnknownDiscoveryInfoException", msg |-> "Unknown Error: " \o reason]

InvalidMatrixIdException(matrix_id) ==
    [type |-> "InvalidMatrixIdException",
     msg  |-> matrix_id \o " is not a valid Matrix ID."]

\* what the interpreter raises when the nesting of calls passes its limit
RecursionError ==
    [type |-> "RecursionError", msg |-> "maximum recursion depth exceeded"]

\* an exception raised by the transport inside client.discovery_info()
TransportException == [type |-> "ClientConnectionError", msg |-> "transport"]

---------------------------------------------------------------------------
(* fractal.matrix.utils.parse_matrix_id: ^@([^:]+):([^:]+)$ *)

\* variant: the domain may hold further colons
ParseOkManyColons(matrix_id) ==
    /\ Len(matrix_id) >= 4
    /\ Char(matrix_id, 1) = "@"
    /\ IndexOf(":", matrix_id) >= 3
    /\ IndexOf(":", matrix_id) < Len(matrix_id)

ParseOk(matrix_id) ==
    /\ Len(matrix_id) >= 4
    /\ Char(matrix_id, 1) = "@"
    /\ CountOf(":", matrix_id) = 1
    /\ IndexOf(":", matrix_id) >= 3
    /\ IndexOf(":", matrix_id) < Len(matrix_id)

\* (user_localpart, homeserver) of an identifier the pattern matches
parse_matrix_id(matrix_id) ==
    LET i == IndexOf(":", matrix_id)
    IN  <<SubSeq(matrix_id, 2, i - 1), SubSeq(matrix_id, i + 1, Len(matrix_id))>>

---------------------------------------------------------------------------
(* urllib.parse.urlparse(url).netloc *)

SchemeChars == LowerChars \cup UpperChars \cup DigitChars \cup {"+", "-", "."}

\* index of the ":" ending the scheme, 0 when the URL has no scheme
SchemeEnd(url) ==
    LET i == IndexOf(":", url)
    IN  IF /\ i > 1
           /\ Char(url, 1) \in LowerChars \cup UpperChars
           /\ \A j \in 1..(i - 1) : Char(url, j) \in SchemeChars
        THEN i ELSE 0

Netloc(url) ==
    LET r == SubSeq(url, SchemeEnd(url) + 1, Len(url))
    IN  IF Len(r) >= 2 /\ SubSeq(r, 1, 2) = "//"
        THEN LET rest == SubSeq(r, 3, Len(r))
                 ends == {i \in 1..Len(rest) : Char(rest, i) \in {"/", "?", "#"}}
                 e    == IF ends = {} THEN Len(rest) + 1 ELSE Min(ends)
             IN  SubSeq(rest, 1, e - 1)
        ELSE ""

\* urlparse(homeserver_url).netloc.split(":")[0]
ParsedHomeserver(homeserver_url) == Split(Netloc(homeserver_url), ":")[1]

---------------------------------------------------------------------------
(* MatrixClient.__init__ and the FractalAsyncClient it builds on entry *)

\* variant: the missing-configuration check left out
MatrixClientInitNoCheck(homeserver_url, access_token, matrix_id, e) ==
    [ok |-> TRUE, exc |-> NoExc,
     homeserver_url |-> PyOr(homeserver_url, e.hs),
     matrix_id      |-> PyOr(matrix_id, e.mid),
     access_token   |-> PyOr(access_token, e.tok)]

\* variant: the environment consulted before the argument
MatrixClientInitEnvFirst(homeserver_url, access_token, matrix_id, e) ==
    LET h == PyOr(e.hs, homeserver_url)
        m == PyOr(e.mid, matrix_id)
        a == PyOr(e.tok, access_token)
    IN  IF ~Truthy(h) /\ ~Truthy(m)
        THEN [ok |-> FALSE, exc |-> KeyErrorMatrixClient,
              homeserver_url |-> h, matrix_id |-> m, access_token |-> a]
        ELSE [ok |-> TRUE, exc |-> NoExc,
              homeserver_url |-> h, matrix_id |-> m, access_token |-> a]

\* The three values MatrixClient.__init__ resolves; ok = FALSE when it raises.
MatrixClientInit(homeserver_url, access_token, matrix_id, e) ==
    LET h == PyOr(homeserver_url, e.hs)
        m == PyOr(matrix_id, e.mid)
        a == PyOr(access_token, e.tok)
    IN  IF ~Truthy(h) /\ ~Truthy(m)
        THEN [ok |-> FALSE, exc |-> KeyErrorMatrixClient,
              homeserver_url |-> h, matrix_id |-> m, access_token |-> a]
        ELSE [ok |-> TRUE, exc |-> NoExc,
              homeserver_url |-> h, matrix_id |-> m, access_token |-> a]

\* variant: the identity set whenever an identifier is known
ClientUserAlways(access_token, matrix_id) ==
    IF Truthy(matrix_id) THEN matrix_id ELSE ""

\* client.user after __aenter__: AsyncClient starts it as "" and __aenter__
\* overwrites it only when there is no token but an identifier
ClientUser(access_token, matrix_id) ==
    IF ~Truthy(access_token) /\ Truthy(matrix_id) THEN matrix_id ELSE ""

\* __aenter__ looks the homeserver up when the instance holds no URL
NeedsDiscoveryNoneOnly(homeserver_url) == homeserver_url = None

NeedsDiscovery(homeserver_url) == ~Truthy(homeserver_url)

\* FractalAsyncClient(homeserver_url, access_token, ...) as __aenter__ leaves it;
\* owner / temp / closed are bookkeeping: who entered the scope, whether the
\* scope is the one inside get_homeserver_for_matrix_id, awaited close() calls
NewClient(homeserver_url, access_token, matrix_id, t, temp) ==
    [homeserver   |-> homeserver_url,
     access_token |-> access_token,
     user         |-> ClientUser(access_token, matrix_id),
     closed       |-> 0,
     owner        |-> t,
     temp         |-> temp]

\* MatrixClient.__aexit__: await self.client.close()
CloseClient(hs, c) == [hs EXCEPT ![c].closed = @ + 1]

---------------------------------------------------------------------------
(* get_homeserver_for_matrix_id *)

LocalhostUrl == "http://localhost:8008"

\* variant: the loopback URL taken without consulting the environment
NominalHomeserverUrlNoEnv(matrix_id, e) ==
    IF IsSubstr("localhost", matrix_id)
    THEN LocalhostUrl
    ELSE "https://" \o parse_matrix_id(matrix_id)[2]

\* the nominal homeserver URL of an identifier (the identifier is parsed only
\* in the ELSE branch, where a mismatch raises)
NominalHomeserverUrl(matrix_id, e) ==
    IF IsSubstr("localhost", matrix_id)
    THEN EnvGet(e.hs, LocalhostUrl)
    ELSE "https://" \o parse_matrix_id(matrix_id)[2]

\* variant: every reason reported as unknown
DiscoveryErrorAlwaysUnknown(reason) == UnknownDiscoveryInfoException(reason)

\* the exception raised for a DiscoveryInfoError
DiscoveryError(reason) ==
    IF reason = "Not Found"
    THEN WellKnownNotFoundException
    ELSE UnknownDiscoveryInfoException(reason)

\* variant: the two hosts compared for equality
DomainApexChangedByEquality(homeserver_url, res_homeserver_url) ==
    ParsedHomeserver(homeserver_url) # ParsedHomeserver(res_homeserver_url)

\* the second component of the returned tuple
DomainApexChanged(homeserver_url, res_homeserver_url) ==
    ~IsSubstr(ParsedHomeserver(homeserver_url), Netloc(res_homeserver_url))

\* One activation of get_homeserver_for_matrix_id: its argument, its nominal
\* URL, the MatrixClient(homeserver_url) it opened and that one's client
\* (0 until the temporary scope is entered).
Frame(matrix_id, homeserver_url, mc) ==
    [mid     |-> matrix_id,
     nominal |-> homeserver_url,
     hs      |-> mc.homeserver_url,
     tmid    |-> mc.matrix_id,
     ttok    |-> mc.access_token,
     client  |-> 0]

\* The call get_homeserver_for_matrix_id(matrix_id) run up to its first
\* suspension: either it raises, or it stops in client.discovery_info() of the
\* innermost activation.  The temporary MatrixClient of an activation enters
\* its own scope, which calls get_homeserver_for_matrix_id again when it holds
\* no URL.
RECURSIVE Descend(_, _, _)
Descend(matrix_id, e, depth) ==
    IF depth > RecursionLimit
    THEN [kind |-> "raise", exc |-> RecursionError, frames |-> <<>>]
    ELSE IF ~IsSubstr("localhost", matrix_id) /\ ~ParseOk(matrix_id)
    THEN [kind |-> "raise", exc |-> InvalidMatrixIdException(matrix_id),
          frames |-> <<>>]
    ELSE
      LET url == NominalHomeserverUrl(matrix_id, e)
          mc  == MatrixClientInit(url, None, None, e)
      IN  IF ~mc.ok
          THEN [kind |-> "raise", exc |-> mc.exc, frames |-> <<>>]
          ELSE IF ~NeedsDiscovery(mc.homeserver_url)
          THEN [kind |-> "await", exc |-> NoExc,
                frames |-> <<Frame(matrix_id, url, mc)>>]
          ELSE LET r == Descend(mc.matrix_id, e, depth + 1)
               IN  IF r.kind = "raise" THEN r
                   ELSE [r EXCEPT !.frames = <<Frame(matrix_id, url, mc)>> \o @]

---------------------------------------------------------------------------
(* Inputs *)

Tasks == 1..NumTasks

\* values of the three environment variables (None: unset)
EnvHomeserverUrls == {None, "", "http://hs.io:8008"}
EnvMatrixIds      == {None, "@u:localhost", "@u:a.io"}
EnvAccessTokens   == {None, "", "envtok"}

\* constructor arguments of the shared MatrixClient (None: not passed)
ArgHomeserverUrls == {None, "", "https://b.io"}
ArgMatrixIds      == {None, "", "@v:a.io", "@v:localhost"}
ArgAccessTokens   == {None, "", "argtok"}

\* identifiers handed to get_homeserver_for_matrix_id directly
DirectMatrixIds == {"@u:a.io", "@u:localhost", "u:a.io", "localhost"}

\* what client.discovery_info() can do: a DiscoveryInfoResponse with a URL, a
\* DiscoveryInfoError with a transport reason, or an exception
Responses ==
    [kind : {"ok"},
     v : {"https://a.io", "https://a.io:8448", "https://m.a.io", "https://b.io",
          "http://localhost:8008"}]
    \cup [kind : {"error"}, v : {"Not Found", "Error"}]
    \cup [kind : {"raise"}, v : {""}]

\* the responses the scoped-lifecycle specification draws from
ScopeResponses ==
    {r \in Responses : r.v \in {"https://a.io", "https://b.io", "Not Found", ""}}

NoResp == [kind |-> "", v |-> ""]
NoRet  == [url |-> None, changed |-> FALSE]

\* a coroutine that has not started.  Besides its position (pc, stack) and
\* outcome (out, exc, ret) it records what the claims speak about: the client
\* its scope produced and the one its __aexit__ closed, the discovery
\* requests it issued (reqs: the homeserver each went to), the last response,
\* the URL the instance held at entry, whether __aenter__ called discovery.
IdleTask ==
    [kind |-> "none", pc |-> "idle", mid |-> None, stack |-> <<>>,
     client |-> 0, closedAtExit |-> 0, reqs |-> <<>>, resp |-> NoResp,
     out |-> "", exc |-> NoExc, ret |-> NoRet,
     nominal |-> None, entryHs |-> None, disc |-> FALSE]

NoInst ==
    [state |-> "none", exc |-> NoExc,
     homeserver_url |-> None, matrix_id |-> None, access_token |-> None,
     client |-> 0,
     args |-> [hs |-> None, tok |-> None, mid |-> None],
     init_hs |-> None]

\* invite has not been called
NoInvite ==
    [state |-> "idle", user_id |-> "", room_id |-> "", admin |-> FALSE,
     calls |-> <<>>, results |-> <<>>, exc |-> NoExc, fetched |-> <<>>,
     written |-> <<>>]

\* no FractalAsyncClient constructed for the wrapper operations
NoClient ==
    [homeserver |-> "", access_token |-> "", room_id |-> None,
     next_batch |-> None]

\* no wrapper operation called
NoCall ==
    [state |-> "idle", op |-> "", args |-> <<>>, before |-> NoClient,
     calls |-> <<>>, results |-> <<>>, logs |-> <<>>, logged |-> "",
     exc |-> NoExc, ret |-> None]

\* a YAML document without keys
NoKeys == [k \in {} |-> ""]

\* no credential file on disk
NoFile == [exists |-> FALSE, data |-> NoKeys]

\* the environments and constructor arguments the scoped-lifecycle
\* specification draws from
ScopeEnvs ==
    [hs : EnvHomeserverUrls, mid : EnvMatrixIds, tok : {None, "envtok"}]
ScopeArgHomeserverUrls == {None, "https://b.io"}
ScopeArgMatrixIds      == {None, "@v:a.io", "@v:localhost"}
ScopeArgAccessTokens   == {None, "", "argtok"}

Envs == [hs : EnvHomeserverUrls, mid : EnvMatrixIds, tok : EnvAccessTokens]

InitIn(E) ==
    /\ env \in E
    /\ inst = NoInst
    /\ handles = <<>>
    /\ task = [t \in Tasks |-> IdleTask]
    /\ inv = NoInvite
    /\ client = NoClient
    /\ call = NoCall
    /\ creds = NoFile

Init == InitIn(ScopeEnvs)

---------------------------------------------------------------------------
(* Actions of the scoped client lifecycle *)

\* mc = MatrixClient(homeserver_url, access_token, matrix_id)
Construct(homeserver_url, access_token, matrix_id) ==
    /\ inst.state = "none"
    /\ LET mc == MatrixClientInit(homeserver_url, access_token, matrix_id, env)
       IN  inst' = [state          |-> IF mc.ok THEN "made" ELSE "raised",
                    exc            |-> mc.exc,
                    homeserver_url |-> mc.homeserver_url,
                    matrix_id      |-> mc.matrix_id,
                    access_token   |-> mc.access_token,
                    client         |-> 0,
                    args           |-> [hs |-> homeserver_url, tok |-> access_token,
                                        mid |-> matrix_id],
                    init_hs        |-> mc.homeserver_url]
    /\ UNCHANGED <<env, handles, task, inv, client, call, creds>>

\* tasks start in index order (they are interchangeable)
MayStart(t) ==
    /\ task[t].pc = "idle"
    /\ \A u \in Tasks : u < t => task[u].pc # "idle"

\* The call get_homeserver_for_matrix_id(matrix_id) made by coroutine tk, up to
\* its first suspension: the new task record and the new list of clients.
BeginDiscovery(t, tk, matrix_id) ==
    LET r == Descend(matrix_id, env, 1)
        n == Len(r.frames)
        c == Len(handles) + 1
    IN  IF r.kind = "raise"
        THEN [task    |-> [tk EXCEPT !.pc = "done", !.out = "raise", !.exc = r.exc],
              handles |-> handles]
        ELSE [task    |-> [tk EXCEPT !.pc = "discover",
                                     !.nominal = r.frames[1].nominal,
                                     !.stack = [r.frames EXCEPT ![n].client = c]],
              handles |-> Append(handles,
                                 NewClient(r.frames[n].hs, r.frames[n].ttok,
                                           r.frames[n].tmid, t, TRUE))]

\* `async with mc as client:` / the decorator's wrapper, up to the first
\* suspension of MatrixClient.__aenter__
Enter(t) ==
    /\ inst.state = "made"
    /\ MayStart(t)
    /\ LET tk == [task[t] EXCEPT !.kind = "scope", !.mid = inst.matrix_id,
                                 !.entryHs = inst.homeserver_url]
       IN  IF ~NeedsDiscovery(inst.homeserver_url)
           THEN /\ handles' = Append(handles,
                                     NewClient(inst.homeserver_url, inst.access_token,
                                               inst.matrix_id, t, FALSE))
                /\ inst' = [inst EXCEPT !.client = Len(handles) + 1]
                /\ task' = [task EXCEPT ![t] =
                              [tk EXCEPT !.pc = "body", !.client = Len(handles) + 1]]
           ELSE LET b == BeginDiscovery(t, [tk EXCEPT !.disc = TRUE], inst.matrix_id)
                IN  /\ handles' = b.handles
                    /\ task' = [task EXCEPT ![t] = b.task]
                    /\ UNCHANGED inst
    /\ UNCHANGED <<env, inv, client, call, creds>>

\* await get_homeserver_for_matrix_id(matrix_id), called directly
CallDiscover(t, matrix_id) ==
    /\ MayStart(t)
    /\ LET b == BeginDiscovery(t, [task[t] EXCEPT !.kind = "direct", !.mid = matrix_id],
                               matrix_id)
       IN  /\ handles' = b.handles
           /\ task' = [task EXCEPT ![t] = b.task]
    /\ UNCHANGED <<env, inst, inv, client, call, creds>>

\* client.discovery_info() of the innermost activation completes: the
\* temporary scope exits (closing its client), and the activation raises or
\* returns (url, domain_apex_changed) to its caller, which is the __aenter__
\* of the enclosing activation's temporary MatrixClient, the __aenter__ of the
\* shared MatrixClient, or the direct caller.
DiscoveryRespond(t, resp) ==
    /\ task[t].pc = "discover"
    /\ LET tk   == task[t]
           n    == Len(tk.stack)
           top  == tk.stack[n]
           hs1  == CloseClient(handles, top.client)
           c    == Len(hs1) + 1
           tk1  == [tk EXCEPT !.reqs = Append(@, [op |-> "discovery_info",
                                                  homeserver |-> handles[top.client].homeserver]),
                              !.resp = resp]
           ret  == [url |-> resp.v, changed |-> DomainApexChanged(top.nominal, resp.v)]
       IN  IF resp.kind = "raise"
           THEN /\ task' = [task EXCEPT ![t] =
                              [tk1 EXCEPT !.pc = "done", !.out = "raise",
                                          !.exc = TransportException, !.stack = <<>>]]
                /\ handles' = hs1
                /\ UNCHANGED inst
           ELSE IF resp.kind = "error"
           THEN /\ task' = [task EXCEPT ![t] =
                              [tk1 EXCEPT !.pc = "done", !.out = "raise",
                                          !.exc = DiscoveryError(resp.v), !.stack = <<>>]]
                /\ handles' = hs1
                /\ UNCHANGED inst
           ELSE IF n > 1
           THEN LET lower == tk.stack[n - 1]
                IN  /\ task' = [task EXCEPT ![t] =
                                  [tk1 EXCEPT !.stack =
                                     SubSeq(tk.stack, 1, n - 2)
                                     \o <<[lower EXCEPT !.hs = ret.url, !.client = c]>>]]
                    /\ handles' = Append(hs1, NewClient(ret.url, lower.ttok,
                                                        lower.tmid, t, TRUE))
                    /\ UNCHANGED inst
           ELSE IF tk.kind = "direct"
           THEN /\ task' = [task EXCEPT ![t] =
                              [tk1 EXCEPT !.pc = "done", !.out = "return",
                                          !.ret = ret, !.stack = <<>>]]
                /\ handles' = hs1
                /\ UNCHANGED inst
           ELSE /\ inst' = [inst EXCEPT !.homeserver_url = ret.url, !.client = c]
                /\ handles' = Append(hs1, NewClient(ret.url, inst.access_token,
                                                    inst.matrix_id, t, FALSE))
                /\ task' = [task EXCEPT ![t] =
                              [tk1 EXCEPT !.pc = "body", !.ret = ret, !.client = c,
                                          !.stack = <<>>]]
    /\ UNCHANGED <<env, inv, client, call, creds>>

\* an exception raised by the body of the scope
BodyException == [type |-> "Exception", msg |-> "body"]

\* The body of the scope returns or raises and MatrixClient.__aexit__ runs:
\* await self.client.close(), on the client the instance holds now.
BodyFinish(t, how) ==
    /\ task[t].pc = "body"
    /\ handles' = CloseClient(handles, inst.client)
    /\ task' = [task EXCEPT ![t] =
                  [@ EXCEPT !.pc = "done", !.out = how, !.closedAtExit = inst.client,
                            !.exc = IF how = "raise" THEN BodyException ELSE NoExc]]
    /\ UNCHANGED <<env, inst, inv, client, call, creds>>

Next ==
    \/ \E h \in ScopeArgHomeserverUrls, a \in ScopeArgAccessTokens,
          m \in ScopeArgMatrixIds : Construct(h, a, m)
    \/ \E t \in Tasks : Enter(t)
    \/ \E t \in Tasks, resp \in ScopeResponses : DiscoveryRespond(t, resp)
    \/ \E t \in Tasks, how \in {"return", "raise"} : BodyFinish(t, how)

\* scopes and decorated calls on one shared MatrixClient
Spec == Init /\ [][Next]_vars

\* MatrixClient(...) alone, over every environment and argument combination
InitConstruct == InitIn(Envs)

NextConstruct ==
    \E h \in ArgHomeserverUrls, a \in ArgAccessTokens, m \in ArgMatrixIds :
        Construct(h, a, m)

SpecConstruct == InitConstruct /\ [][NextConstruct]_vars

\* number of coroutines calling get_homeserver_for_matrix_id directly
NumCallers == 1

InitDiscovery == InitIn(Envs)

NextDiscovery ==
    \/ \E t \in 1..NumCallers, m \in DirectMatrixIds : CallDiscover(t, m)
    \/ \E t \in 1..NumCallers, resp \in Responses : DiscoveryRespond(t, resp)

SpecDiscovery == InitDiscovery /\ [][NextDiscovery]_vars

---------------------------------------------------------------------------
(* FractalAsyncClient.invite *)

\* every string of at most n characters of the alphabet A
RECURSIVE StringsUpTo(_, _)
StringsUpTo(A, n) ==
    IF n = 0 THEN {""}
    ELSE LET S == StringsUpTo(A, n - 1)
         IN  S \cup {s \o c : s \in S, c \in A}

InviteUserIds == StringsUpTo({"@", ":", "a", "B", "1"}, MaxIdLen)
InviteRoomIds == {"!r:a.io"}

\* content of an m.room.power_levels state event, or the error body the
\* homeserver answers with; the "users" key is optional in the event
PowerLevelContents ==
    {[errcode |-> "", error |-> "", has_users |-> TRUE,
      users |-> [u \in {"@o:a"} |-> 50], ban |-> 50],
     [errcode |-> "", error |-> "", has_users |-> TRUE,
      users |-> [u \in {"@o:a", "@a:a"} |-> 50], ban |-> 50],
     [errcode |-> "", error |-> "", has_users |-> FALSE,
      users |-> <<>>, ban |-> 50],
     [errcode |-> "M_NOT_FOUND", error |-> "Event not found.", has_users |-> FALSE,
      users |-> <<>>, ban |-> 0]}

NoContent ==
    [errcode |-> "", error |-> "", has_users |-> FALSE, users |-> <<>>, ban |-> 0]

\* results of room_invite / room_get_state_event / room_put_state: the
\* response, or the error variant with its message
InviteResults   == {[kind |-> "ok"], [kind |-> "error", message |-> "invite refused"]}
GetStateResults ==
    [kind : {"ok"}, content : PowerLevelContents]
    \cup {[kind |-> "error", content |-> NoContent, message |-> "state refused"]}
PutStateResults == {[kind |-> "ok"], [kind |-> "error", message |-> "put refused"]}

\* no library call is made when invite raises before room_invite
NoResult == [kind |-> "none"]

PyException(msg) == [type |-> "Exception", msg |-> msg]

\* variant: no result is taken for the error variant
IsErrorNever(res) == FALSE

\* isinstance(res, <the library's error response class>)
IsError(res) == res.kind = "error"

\* variant: the admin flag not checked
InvitePreconditionNoAdminCheck(user_id, admin) ==
    IF Len(Split(user_id, "@")) < 2
    THEN [type |-> "IndexError", msg |-> "list index out of range"]
    ELSE IF ~IsLower(Split(user_id, "@")[2])
    THEN PyException("Matrix ids must be lowercase.")
    ELSE NoExc

\* variant: the letter case not checked
InvitePreconditionNoLowerCheck(user_id, admin) ==
    IF ~admin
    THEN PyException("FIXME: Only admin invites are supported for now.")
    ELSE IF Len(Split(user_id, "@")) < 2
    THEN [type |-> "IndexError", msg |-> "list index out of range"]
    ELSE NoExc

\* The checks invite makes before it sends anything: the exception it raises,
\* or NoExc when it goes on to room_invite.
InvitePrecondition(user_id, admin) ==
    IF ~admin
    THEN PyException("FIXME: Only admin invites are supported for now.")
    ELSE IF Len(Split(user_id, "@")) < 2
    THEN [type |-> "IndexError", msg |-> "list index out of range"]
    ELSE IF ~IsLower(Split(user_id, "@")[2])
    THEN PyException("Matrix ids must be lowercase.")
    ELSE NoExc

\* variant: the users of the content are replaced by the invited one
SetAdminDroppingOthers(content, user_id) ==
    [content EXCEPT !.users = [u \in {user_id} |-> 100]]

\* power_levels["users"][user_id] = 100
SetAdmin(content, user_id) ==
    [content EXCEPT !.users =
        [u \in DOMAIN content.users \cup {user_id} |->
            IF u = user_id THEN 100 ELSE content.users[u]]]

\* the whole call: the library calls made, in order, the exception raised
\* (NoExc when it returns None), the content fetched and the content written
InviteRun(user_id, room_id, admin, pre, r1, r2, r3) ==
    LET call1 == [op |-> "room_invite", room_id |-> room_id, arg |-> user_id]
        call2 == [op |-> "room_get_state_event", room_id |-> room_id,
                  arg |-> "m.room.power_levels"]
        call3 == [op |-> "room_put_state", room_id |-> room_id,
                  arg |-> "m.room.power_levels"]
        base  == [state |-> "done", user_id |-> user_id, room_id |-> room_id,
                  admin |-> admin, calls |-> <<>>, results |-> <<>>,
                  exc |-> NoExc, fetched |-> <<>>, written |-> <<>>]
    IN  IF pre # NoExc
        THEN [base EXCEPT !.exc = pre]
        ELSE IF IsError(r1)
        THEN [base EXCEPT !.calls = <<call1>>, !.results = <<r1>>,
                          !.exc = PyException(r1.message)]
        ELSE IF IsError(r2)
        THEN [base EXCEPT !.calls = <<call1, call2>>, !.results = <<r1, r2>>,
                          !.exc = PyException(r2.message)]
        ELSE IF r2.content.errcode # ""
        THEN [base EXCEPT !.calls = <<call1, call2>>, !.results = <<r1, r2>>,
                          !.fetched = <<r2.content>>,
                          !.exc = PyException(r2.content.error)]
        ELSE IF ~r2.content.has_users
        THEN [base EXCEPT !.calls = <<call1, call2>>, !.results = <<r1, r2>>,
                          !.fetched = <<r2.content>>,
                          !.exc = [type |-> "KeyError", msg |-> "'users'"]]
        ELSE IF IsError(r3)
        THEN [base EXCEPT !.calls = <<call1, call2, call3>>,
                          !.results = <<r1, r2, r3>>,
                          !.fetched = <<r2.content>>,
                          !.written = <<SetAdmin(r2.content, user_id)>>,
                          !.exc = PyException(r3.message)]
        ELSE [base EXCEPT !.calls = <<call1, call2, call3>>,
                          !.results = <<r1, r2, r3>>,
                          !.fetched = <<r2.content>>,
                          !.written = <<SetAdmin(r2.content, user_id)>>]

\* await client.invite(user_id, room_id, admin), with whatever the three
\* library calls answer
Invite(user_id, room_id, admin) ==
    /\ inv.state = "idle"
    /\ LET pre == InvitePrecondition(user_id, admin)
       IN  inv' \in {InviteRun(user_id, room_id, admin, pre, r1, r2, r3) :
                        r1 \in IF pre = NoExc THEN InviteResults
                                             ELSE {NoResult},
                        r2 \in IF pre = NoExc THEN GetStateResults
                                             ELSE {NoResult},
                        r3 \in IF pre = NoExc THEN PutStateResults
                                             ELSE {NoResult}}
    /\ UNCHANGED <<env, inst, handles, task, client, call, creds>>

NoEnv == [hs |-> None, mid |-> None, tok |-> None]

InitInvite == InitIn({NoEnv})

NextInvite ==
    /\ inv.state = "idle"
    /\ \E u \in InviteUserIds, r \in InviteRoomIds, admin \in BOOLEAN :
          Invite(u, r, admin)

SpecInvite == InitInvite /\ [][NextInvite]_vars

---------------------------------------------------------------------------
(* FractalAsyncClient: the other wrapper operations, called on one client *)

LowerAlphabet == "abcdefghijklmnopqrstuvwxyz"
UpperAlphabet == "ABCDEFGHIJKLMNOPQRSTUVWXYZ"

\* str.lower()
RECURSIVE Lower(_)
Lower(s) ==
    IF s = "" THEN ""
    ELSE LET c == Char(s, 1)
         IN  (IF c \in UpperChars
              THEN Char(LowerAlphabet, IndexOf(c, UpperAlphabet))
              ELSE c) \o Lower(SubSeq(s, 2, Len(s)))

\* FractalAsyncClient(homeserver_url, access_token, room_id), with the sync
\* position the library keeps on it
Clients ==
    [homeserver : {"https://a.io"}, access_token : {"", "admintok"},
     room_id : {None, "", "!c:a.io"}, next_batch : {None, "s1"}]

\* a wrapper operation that has run: its name and arguments and the client
\* it was called on
DoneCall(op, args, c) ==
    [state |-> "done", op |-> op, args |-> args, before |-> c,
     calls |-> <<>>, results |-> <<>>, logs |-> <<>>, logged |-> "",
     exc |-> NoExc, ret |-> None]

\* the effect of one wrapper operation on the client and the call record
Ran(r) ==
    /\ client' = r.client
    /\ call' = r.call
    /\ UNCHANGED <<env, inst, handles, task, inv, creds>>

\* responses of the homeserver's admin API to a POST
PostResponses ==
    {[ok |-> TRUE, status |-> "200", text |-> "{}"],
     [ok |-> FALSE, status |-> "403", text |-> "forbidden"]}

\* the mutant of ResponseOk: every response is taken as a success
ResponseOkAlways(response) == TRUE

\* `if response.ok:` of the two admin POSTs
ResponseOk(response) == response.ok

\* disable_ratelimiting(matrix_id) on client c: the POST it makes, what it
\* logs and what it raises
DisableRatelimitingRun(c, matrix_id, response) ==
    [call |-> [op |-> "POST",
               url |-> c.homeserver \o "/_synapse/admin/v1/users/"
                         \o matrix_id \o "/override_ratelimit",
               bearer |-> c.access_token],
     logs |-> IF ResponseOk(response) THEN <<"info", "info">> ELSE <<"info">>,
     exc  |-> IF ResponseOk(response) THEN NoExc
              ELSE PyException(
                      "Failed to override rate limit. Error Response status "
                      \o response.status \o ": " \o response.text)]

\* await client.disable_ratelimiting(matrix_id), called on its own
DisableRatelimiting(matrix_id) ==
    \E response \in PostResponses :
        LET d == DisableRatelimitingRun(client, matrix_id, response)
        IN  Ran([client |-> client,
                 call |-> [DoneCall("disable_ratelimiting", matrix_id, client)
                             EXCEPT !.calls = <<d.call>>,
                                    !.results = <<response>>,
                                    !.logs = d.logs,
                                    !.exc = d.exc]])

\* what the homeserver answers to the registration-token POST; json is the
\* decoded body of a success, with or without a "token" field
TokenResponses ==
    {[ok |-> TRUE, status |-> "200", text |-> "{\"token\": \"regtok\"}",
      json |-> [token |-> "regtok"]],
     [ok |-> TRUE, status |-> "200", text |-> "{}", json |-> [none |-> ""]],
     [ok |-> FALSE, status |-> "403", text |-> "forbidden",
      json |-> [none |-> ""]]}

\* generate_registration_token() on client c
GenerateRegistrationTokenRun(c, response) ==
    LET base == [DoneCall("generate_registration_token", <<>>, c)
                   EXCEPT !.calls =
                            <<[op |-> "POST",
                               url |-> c.homeserver \o
                                   "/_synapse/admin/v1/registration_tokens/new",
                               bearer |-> c.access_token]>>,
                          !.results = <<response>>]
    IN  IF ResponseOk(response)
        THEN IF "token" \in DOMAIN response.json
             THEN [base EXCEPT !.ret = response.json.token]
             ELSE [base EXCEPT !.exc = [type |-> "KeyError",
                                        msg  |-> "'token'"]]
        ELSE [base EXCEPT
                !.logs = <<"error">>,
                !.logged =
                    "Failed to override rate limit. Error Response status "
                    \o response.status \o ": " \o response.text,
                !.exc = PyException("")]

\* await client.generate_registration_token()
GenerateRegistrationToken ==
    \E response \in TokenResponses :
        Ran([client |-> client,
             call |-> GenerateRegistrationTokenRun(client, response)])

RegisterMatrixIds == {"@ab:a.io", "@Ab:A.io", "ab:a.io", "@a:b:c", ""}

\* results of the library's register_with_token: RegisterResponse with the
\* new user's token, or RegisterErrorResponse
RegisterResults ==
    {[kind |-> "ok", access_token |-> "newtok"],
     [kind |-> "error", message |-> "M_FORBIDDEN"]}

\* what the library's register_with_token does to the client: a
\* RegisterResponse puts the new user's token on it
LibraryRegister(c, res) ==
    IF IsError(res) THEN c ELSE [c EXCEPT !.access_token = res.access_token]

\* variant: the token the library left is kept
RestoreAccessTokenSkipped(c, access_token) == c

\* self.access_token = access_token
RestoreAccessToken(c, access_token) == [c EXCEPT !.access_token = access_token]

\* variant: rate limiting is disabled whatever the flag
DisableRequestedAlways(disable_ratelimiting) == TRUE

\* if disable_ratelimiting:
DisableRequested(disable_ratelimiting) == disable_ratelimiting

\* register_with_token(matrix_id, password, registration_token, device_name,
\* disable_ratelimiting) on client c, the library answering res and the admin
\* API response: the client afterwards and the record of the call
RegisterWithTokenRun(c, matrix_id, disable_ratelimiting, res, response) ==
    LET lowered == Lower(matrix_id)
        base == DoneCall("register_with_token",
                         [matrix_id |-> matrix_id,
                          disable_ratelimiting |-> disable_ratelimiting], c)
    IN  IF ~ParseOk(lowered)
        THEN [client |-> c,
              call |-> [base EXCEPT !.exc = InvalidMatrixIdException(lowered)]]
        ELSE
        LET username == parse_matrix_id(lowered)[1]
            access_token == c.access_token
            libcall == [op |-> "register_with_token", username |-> username,
                        bearer |-> c.access_token]
            c1 == LibraryRegister(c, res)
        IN  IF IsError(res)
            THEN [client |-> c1,
                  call |-> [base EXCEPT !.calls = <<libcall>>,
                                        !.results = <<res>>,
                                        !.exc = PyException(res.message)]]
            ELSE
            LET c2 == RestoreAccessToken(c1, access_token)
            IN  IF DisableRequested(disable_ratelimiting)
                THEN LET d == DisableRatelimitingRun(c2, lowered, response)
                     IN  [client |-> c2,
                          call |-> [base EXCEPT
                                      !.calls = <<libcall, d.call>>,
                                      !.results = <<res, response>>,
                                      !.logs = d.logs,
                                      !.exc = d.exc,
                                      !.ret = IF d.exc = NoExc
                                              THEN res.access_token
                                              ELSE None]]
                ELSE [client |-> c2,
                      call |-> [base EXCEPT !.calls = <<libcall>>,
                                            !.results = <<res>>,
                                            !.ret = res.access_token]]

\* await client.register_with_token(matrix_id, ...)
RegisterWithToken(matrix_id, disable_ratelimiting) ==
    \E r \in {RegisterWithTokenRun(client, matrix_id, disable_ratelimiting,
                                   res, response) :
                  res \in RegisterResults, response \in PostResponses} :
        Ran(r)

\* GetLatestSyncTokenError(message): str(e)
GetLatestSyncTokenError(message) ==
    [type |-> "GetLatestSyncTokenError",
     msg  |-> IF Truthy(message)
              THEN "Failed to get latest sync token: " \o message
              ELSE "Failed to get latest sync token"]

SyncRoomIdArgs == {None, "", "!r:a.io"}

\* results of room_messages: RoomMessagesResponse with its start cursor, or
\* RoomMessagesError with its message
RoomMessagesResults ==
    {[kind |-> "ok", start |-> "t1"], [kind |-> "ok", start |-> ""],
     [kind |-> "error", message |-> "Room Message Error"],
     [kind |-> "error", message |-> ""]}

\* variant: only the argument names the room
SyncRoomIdArgumentOnly(room_id, c) == room_id

\* room_id = room_id or self.room_id
SyncRoomId(room_id, c) == PyOr(room_id, c.room_id)

\* variant: only an unset room id is refused
RoomIdMissingNoneOnly(room_id) == room_id = None

\* if not room_id:
RoomIdMissing(room_id) == ~Truthy(room_id)

\* variant: the error is raised naming the room
SyncTokenFailureNamesRoom(res, room_id) == GetLatestSyncTokenError(room_id)

\* raise GetLatestSyncTokenError(res.message)
SyncTokenFailure(res, room_id) == GetLatestSyncTokenError(res.message)

\* get_latest_sync_token(room_id) on client c, room_messages answering res
GetLatestSyncTokenRun(c, room_id, res) ==
    LET base == DoneCall("get_latest_sync_token", [room_id |-> room_id], c)
        rid  == SyncRoomId(room_id, c)
        libcall == [op |-> "room_messages", room_id |-> rid, start |-> "",
                    limit |-> 1, direction |-> "back"]
    IN  IF RoomIdMissing(rid)
        THEN [client |-> c,
              call |-> [base EXCEPT
                          !.exc = GetLatestSyncTokenError("No room id provided")]]
        ELSE IF ~IsError(res)
        THEN [client |-> c,
              call |-> [base EXCEPT !.calls = <<libcall>>, !.results = <<res>>,
                                    !.ret = res.start]]
        ELSE [client |-> c,
              call |-> [base EXCEPT !.calls = <<libcall>>, !.results = <<res>>,
                                    !.exc = SyncTokenFailure(res, rid)]]

\* await client.get_latest_sync_token(room_id)
GetLatestSyncToken(room_id) ==
    \E r \in {GetLatestSyncTokenRun(client, room_id, res) :
                  res \in RoomMessagesResults} :
        Ran(r)

\* the message argument of send_message: a str, a dict, or bytes that are or
\* are not valid UTF-8
Messages ==
    {[type |-> "str", utf8 |-> TRUE], [type |-> "dict", utf8 |-> TRUE],
     [type |-> "bytes", utf8 |-> TRUE], [type |-> "bytes", utf8 |-> FALSE]}

SendRooms == {"!r:a.io"}

\* what room_send does: returns RoomSendResponse or RoomSendError, or raises
\* an Exception or a BaseException that is not one (cancellation)
RoomSendResults ==
    {[kind |-> "ok"], [kind |-> "error", message |-> "Test Error Message"],
     [kind |-> "raise", exc |-> TransportException, base |-> "Exception"],
     [kind |-> "raise",
      exc |-> [type |-> "CancelledError", msg |-> ""],
      base |-> "BaseException"]}

\* variant: nothing raised is caught
CaughtNever(res) == FALSE

\* except Exception as err:
Caught(res) == res.base = "Exception"

\* send_message(room, message) on client c, room_send doing res
SendMessageRun(c, room, message, res) ==
    LET base == DoneCall("send_message", [room |-> room, message |-> message], c)
        libcall == [op |-> "room_send", room |-> room,
                    msgtype |-> "taskiq.task"]
    IN  IF message.type = "bytes" /\ ~message.utf8
        THEN [client |-> c,
              call |-> [base EXCEPT
                          !.exc = [type |-> "UnicodeDecodeError",
                                   msg  |-> "invalid start byte"]]]
        ELSE IF res.kind = "raise"
        THEN IF Caught(res)
             THEN [client |-> c,
                   call |-> [base EXCEPT !.calls = <<libcall>>,
                                         !.results = <<res>>,
                                         !.logs = <<"debug", "error">>]]
             ELSE [client |-> c,
                   call |-> [base EXCEPT !.calls = <<libcall>>,
                                         !.results = <<res>>,
                                         !.logs = <<"debug">>,
                                         !.exc = res.exc]]
        ELSE IF res.kind # "ok"
        THEN [client |-> c,
              call |-> [base EXCEPT !.calls = <<libcall>>, !.results = <<res>>,
                                    !.logs = <<"debug", "error", "debug">>]]
        ELSE [client |-> c,
              call |-> [base EXCEPT !.calls = <<libcall>>, !.results = <<res>>,
                                    !.logs = <<"debug", "debug">>]]

\* await client.send_message(room, message)
SendMessage(room, message) ==
    \E r \in {SendMessageRun(client, room, message, res) :
                  res \in RoomSendResults} :
        Ran(r)

\* results of join: JoinResponse or JoinError
JoinResults ==
    {[kind |-> "ok"], [kind |-> "error", message |-> "M_FORBIDDEN"]}

\* join_room(room_id) on client c, join answering res
JoinRoomRun(c, room_id, res) ==
    LET base == DoneCall("join_room", [room_id |-> room_id], c)
        libcall == [op |-> "join", room_id |-> room_id]
    IN  [client |-> c,
         call |-> [base EXCEPT !.calls = <<libcall>>, !.results = <<res>>,
                               !.logs = <<"info">>,
                               !.exc = IF IsError(res)
                                       THEN PyException(res.message)
                                       ELSE NoExc]]

\* await client.join_room(room_id)
JoinRoom(room_id) ==
    \E r \in {JoinRoomRun(client, room_id, res) : res \in JoinResults} :
        Ran(r)

\* results of sync: SyncResponse with its next_batch and the invited rooms,
\* or SyncError
SyncResults ==
    {[kind |-> "ok", next_batch |-> "s2", invite |-> {"!i:a.io"}],
     [kind |-> "ok", next_batch |-> "s3", invite |-> {}],
     [kind |-> "error", message |-> "M_UNKNOWN_TOKEN"]}

\* what the library's sync does to the client: a SyncResponse moves the
\* sync position
LibrarySync(c, res) ==
    IF IsError(res) THEN c ELSE [c EXCEPT !.next_batch = res.next_batch]

\* variant: the sync position the library left is kept
RestoreNextBatchSkipped(c, prev_next_batch) == c

\* self.next_batch = prev_next_batch
RestoreNextBatch(c, prev_next_batch) ==
    [c EXCEPT !.next_batch = prev_next_batch]

\* get_room_invites() on client c, sync answering res
GetRoomInvitesRun(c, res) ==
    LET base == DoneCall("get_room_invites", <<>>, c)
        prev_next_batch == c.next_batch
        libcall == [op |-> "sync", since |-> None, timeout |-> 0]
        c1 == LibrarySync(c, res)
    IN  IF IsError(res)
        THEN [client |-> c1,
              call |-> [base EXCEPT !.calls = <<libcall>>, !.results = <<res>>,
                                    !.exc = PyException(res.message)]]
        ELSE [client |-> RestoreNextBatch(c1, prev_next_batch),
              call |-> [base EXCEPT !.calls = <<libcall>>, !.results = <<res>>,
                                    !.ret = res.invite]]

\* await client.get_room_invites()
GetRoomInvites ==
    \E r \in {GetRoomInvitesRun(client, res) : res \in SyncResults} :
        Ran(r)

\* results of upload: UploadResponse with its content URI, or UploadError
UploadResults ==
    {[kind |-> "ok", content_uri |-> "mxc://a.io/x"],
     [kind |-> "error", message |-> "M_TOO_LARGE"]}

\* the file to upload is there or not; a monitor is passed or not
UploadFiles == [exists : BOOLEAN, monitor : BOOLEAN]

\* upload_file(file_path, monitor) on client c, upload answering res
UploadFileRun(c, file, res) ==
    LET base == DoneCall("upload_file", file, c)
        libcall == [op |-> "upload", monitor |-> file.monitor]
    IN  IF ~file.exists
        THEN [client |-> c,
              call |-> [base EXCEPT
                          !.exc = [type |-> "FileNotFoundError",
                                   msg  |-> "No such file or directory"]]]
        ELSE IF IsError(res)
        THEN [client |-> c,
              call |-> [base EXCEPT !.calls = <<libcall>>, !.results = <<res>>,
                                    !.logs = <<"info">>,
                                    !.exc = PyException("Failed to upload file.")]]
        ELSE [client |-> c,
              call |-> [base EXCEPT !.calls = <<libcall>>, !.results = <<res>>,
                                    !.logs = <<"info">>,
                                    !.ret = res.content_uri]]

\* await client.upload_file(file_path, monitor)
UploadFile(file) ==
    \E r \in {UploadFileRun(client, file, res) : res \in UploadResults} :
        Ran(r)

InitClient ==
    /\ env = NoEnv
    /\ inst = NoInst
    /\ handles = <<>>
    /\ task = [t \in Tasks |-> IdleTask]
    /\ inv = NoInvite
    /\ client \in Clients
    /\ call = NoCall
    /\ creds = NoFile

NextClient ==
    \/ \E matrix_id \in RegisterMatrixIds, disable_ratelimiting \in BOOLEAN :
          RegisterWithToken(matrix_id, disable_ratelimiting)
    \/ \E room_id \in SyncRoomIdArgs : GetLatestSyncToken(room_id)
    \/ \E room \in SendRooms, message \in Messages : SendMessage(room, message)
    \/ \E room_id \in SendRooms : JoinRoom(room_id)
    \/ GetRoomInvites
    \/ \E file \in UploadFiles : UploadFile(file)
    \/ \E matrix_id \in RegisterMatrixIds : DisableRatelimiting(matrix_id)
    \/ GenerateRegistrationToken

SpecClient == InitClient /\ [][NextClient]_vars

\* parse_matrix_id(matrix_id): the pair returned, or the exception raised
ParseMatrixIdRun(matrix_id) ==
    LET base == DoneCall("parse_matrix_id", [matrix_id |-> matrix_id], NoClient)
    IN  IF ParseOk(matrix_id)
        THEN [base EXCEPT !.ret = parse_matrix_id(matrix_id)]
        ELSE [base EXCEPT !.exc = InvalidMatrixIdException(matrix_id)]

\* parse_matrix_id(matrix_id)
ParseMatrixId(matrix_id) ==
    /\ call.state = "idle"
    /\ call' = ParseMatrixIdRun(matrix_id)
    /\ UNCHANGED <<env, inst, handles, task, inv, client, creds>>

InitParse == InitIn({NoEnv})

NextParse ==
    /\ call.state = "idle"
    /\ \E matrix_id \in InviteUserIds : ParseMatrixId(matrix_id)

SpecParse == InitParse /\ [][NextParse]_vars

---------------------------------------------------------------------------
(* MatrixAdminClient: the Synapse admin API over requests *)

AdminClients ==
    {[homeserver_url |-> "https://a.io", admin_access_token |-> "admintok"]}

AdminUserIds == StringsUpTo({"@", ":", "a"}, MaxAdminIdLen)

AdminPasswords == {None, "", "pw"}

\* what requests.request and raise_for_status make of one request: a
\* response that passes, a 4xx/5xx response, or no response at all
HttpOutcomes ==
    {[kind |-> "ok", status |-> "200"],
     [kind |-> "http_error", status |-> "400"],
     [kind |-> "http_error", status |-> "403"],
     [kind |-> "http_error", status |-> "500"],
     [kind |-> "connection_error", status |-> ""]}

\* do_request(method, endpoint, body) of admin client c: the request sent
\* and what is raised
do_request(c, method, endpoint, outcome) ==
    [request |-> [op |-> method,
                  url |-> c.homeserver_url \o endpoint,
                  bearer |-> c.admin_access_token],
     exc |-> IF outcome.kind = "ok" THEN NoExc
             ELSE IF outcome.kind = "http_error"
             THEN [type |-> "HTTPError", msg |-> outcome.status]
             ELSE [type |-> "ConnectionError", msg |-> ""]]

\* the mutant of NameTaken: no status is read as "name taken"
NameTakenNever(outcome) == FALSE

\* `if e.response.status_code == 400:`
NameTaken(outcome) == outcome.status = "400"

\* user_id.split(":")[0][1:]
AdminLocalpart(user_id) ==
    LET head == Split(user_id, ":")[1]
    IN  IF Len(head) <= 1 THEN "" ELSE SubSeq(head, 2, Len(head))

\* check_user_availability(user_id): the GET, the value returned and what
\* is raised
check_user_availability(c, user_id, outcome) ==
    LET r == do_request(c, "GET",
                 "/_synapse/admin/v1/username_available?username="
                 \o AdminLocalpart(user_id), outcome)
    IN  IF outcome.kind = "http_error" /\ NameTaken(outcome)
        THEN [request |-> r.request, ret |-> FALSE, exc |-> NoExc]
        ELSE [request |-> r.request, ret |-> TRUE, exc |-> r.exc]

\* the two `in` tests at the head of create_or_modify_user
FullyQualified(user_id) == IsSubstr("@", user_id) /\ IsSubstr(":", user_id)

\* create_or_modify_user(user_id, password=password) on admin client c, the
\* homeserver answering the GET with get and the PUT with put
CreateOrModifyUserRun(c, user_id, password, get, put) ==
    LET base == DoneCall("create_or_modify_user",
                         [user_id |-> user_id, password |-> password], c)
        avail == check_user_availability(c, user_id, get)
        sent == IF password = None \/ password = ""
                THEN "secrets.token_hex(16)" ELSE password
        r == do_request(c, "PUT", "/_synapse/admin/v2/users/" \o user_id, put)
        request == [op |-> "PUT", url |-> r.request.url,
                    bearer |-> r.request.bearer, password |-> sent]
    IN  IF ~FullyQualified(user_id)
        THEN [base EXCEPT
                !.exc = [type |-> "ValueError",
                         msg  |-> "User ID must be fully-qualified (e.g., '@user:server.com')"]]
        ELSE IF avail.exc # NoExc
        THEN [base EXCEPT !.calls = <<avail.request>>, !.results = <<get>>,
                          !.exc = avail.exc]
        ELSE IF ~avail.ret
        THEN [base EXCEPT !.calls = <<avail.request>>, !.results = <<get>>,
                          !.exc = [type |-> "ValueError",
                                   msg  |-> "User ID '" \o user_id
                                            \o "' is not available"]]
        ELSE [base EXCEPT !.calls = <<avail.request, request>>,
                          !.results = <<get, put>>,
                          !.exc = r.exc]

\* await admin.create_or_modify_user(user_id, password=password)
CreateOrModifyUser(user_id, password) ==
    /\ call.state = "idle"
    /\ call' \in {CreateOrModifyUserRun(c, user_id, password, get, put) :
                    c \in AdminClients, get \in HttpOutcomes,
                    put \in HttpOutcomes}
    /\ UNCHANGED <<env, inst, handles, task, inv, client, creds>>

InitAdmin == InitIn({NoEnv})

NextAdmin ==
    /\ call.state = "idle"
    /\ \E user_id \in AdminUserIds, password \in AdminPasswords :
          CreateOrModifyUser(user_id, password)

SpecAdmin == InitAdmin /\ [][NextAdmin]_vars

---------------------------------------------------------------------------
(* AuthController: the CLI commands over the credential file *)

CredKeys == {"access_token", "homeserver_url", "matrix_id"}

\* the values a credential file found on disk holds
StoredValues ==
    [access_token |-> "tok0", homeserver_url |-> "https://a.io",
     matrix_id |-> "@u:a.io"]

\* the credential files a command can find: none, or a document with any
\* of the three keys
CredFiles ==
    {NoFile} \cup
    {[exists |-> TRUE, data |-> [k \in K |-> StoredValues[k]]] :
        K \in SUBSET CredKeys}

\* the mutant of Falsy: only None counts as not given
FalsyNoneOnly(x) == x = None

\* `not x` for an Optional[str]
Falsy(x) == x = None \/ x = ""

\* the effects of a command, in the order they happen
Printed(text) == [kind |-> "print", what |-> text, arg |-> "", res |-> ""]
Request(what, arg, res) ==
    [kind |-> "net", what |-> what, arg |-> arg, res |-> res]
FileOp(what) == [kind |-> "file", what |-> what, arg |-> "", res |-> ""]

\* exit(1)
SystemExit == [type |-> "SystemExit", msg |-> "1"]

KeyError(key) == [type |-> "KeyError", msg |-> "'" \o key \o "'"]

FileNotFoundError ==
    [type |-> "FileNotFoundError", msg |-> "No such file or directory"]

MatrixLoginError(message) == [type |-> "MatrixLoginError", msg |-> message]

\* a command that ran on credential file f: its effects, the exception that
\* ended it and the exit code of the process
Command(op, args, f, steps, exc) ==
    [state |-> "done", op |-> op, args |-> args, before |-> f,
     steps |-> steps, exc |-> exc,
     exit |-> IF exc = NoExc THEN 0 ELSE 1]

\* a command and the credential file it leaves
Outcome(command, f) == [call |-> command, creds |-> f]

\* what the homeserver answers to discovery_info: a URL, or a transport
\* response that is not ok with its reason
AuthDiscoveries ==
    {[kind |-> "ok", v |-> "https://m.a.io"],
     [kind |-> "error", v |-> "Not Found"],
     [kind |-> "error", v |-> "Error"]}

\* getpass: a password typed, or the prompt interrupted
Prompts == {[kind |-> "typed", password |-> "pw"],
            [kind |-> "interrupt", password |-> ""]}

\* what the library answers to login / whoami: a response or an error
AuthResults ==
    {[kind |-> "ok", access_token |-> "tok2", user_id |-> "@w:a.io"],
     [kind |-> "error", message |-> "M_FORBIDDEN"]}

\* what the library does on logout: a response, an error response, or an
\* exception of the transport
LogoutResults == {"ok", "error", "raise"}

LoginMatrixIds == {None, "", "@u:a.io", "@v:localhost", "u:a.io"}
LoginHomeservers == {None, "", "https://a.io"}
LoginTokens == {None, "", "tok1"}
ShowKeys == CredKeys \cup {"password"}

\* get_homeserver_for_matrix_id(matrix_id) of the package the controller
\* imports: the requests made, the URL returned and what is raised
PackageGetHomeserver(matrix_id, disc) ==
    IF IsSubstr("localhost", matrix_id)
    THEN [steps |-> <<>>, url |-> "http://localhost:8008", exc |-> NoExc]
    ELSE IF ~ParseOk(matrix_id)
    THEN [steps |-> <<>>, url |-> "",
          exc |-> InvalidMatrixIdException(matrix_id)]
    ELSE LET nominal == "https://" \o parse_matrix_id(matrix_id)[2]
             step == Request("discovery_info", nominal, disc.kind)
         IN  IF disc.kind = "ok"
             THEN [steps |-> <<step>>, url |-> disc.v, exc |-> NoExc]
             ELSE [steps |-> <<step>>, url |-> "",
                   exc |-> IF disc.v = "Not Found"
                           THEN WellKnownNotFoundException
                           ELSE UnknownDiscoveryInfoException(
                                   "Failed to get homeserver for MatrixID: "
                                   \o disc.v)]

\* _login_with_password(matrix_id, homeserver_url=homeserver_url)
LoginWithPassword(matrix_id, homeserver_url, disc, prompt, res) ==
    LET found == IF Falsy(homeserver_url)
                 THEN PackageGetHomeserver(matrix_id, disc)
                 ELSE [steps |-> <<>>, url |-> homeserver_url, exc |-> NoExc]
        asked == found.steps \o
                 <<Printed("Login with Matrix ID (" \o matrix_id
                           \o ") to continue")>>
        login == Request("login", matrix_id, res.kind)
    IN  IF found.exc # NoExc
        THEN [steps |-> found.steps, exc |-> found.exc, ret |-> <<>>]
        ELSE IF prompt.kind = "interrupt"
        THEN [steps |-> asked \o <<Printed("")>>, exc |-> SystemExit,
              ret |-> <<>>]
        ELSE IF res.kind = "error"
        THEN [steps |-> asked \o <<login>>,
              exc |-> MatrixLoginError(res.message), ret |-> <<>>]
        ELSE [steps |-> asked \o <<login>>, exc |-> NoExc,
              ret |-> <<found.url, res.access_token>>]

\* _login_with_access_token(access_token, homeserver_url=homeserver_url)
LoginWithAccessToken(access_token, homeserver_url, res) ==
    LET whoami == Request("whoami", access_token, res.kind)
    IN  IF res.kind = "error"
        THEN [steps |-> <<whoami>>, exc |-> MatrixLoginError(res.message),
              ret |-> <<>>]
        ELSE [steps |-> <<whoami>>, exc |-> NoExc,
              ret |-> <<res.user_id, homeserver_url, access_token>>]

\* write_user_data({...}, TOKEN_FILE)
WrittenFile(access_token, homeserver_url, matrix_id) ==
    [exists |-> TRUE,
     data |-> [access_token |-> access_token,
               homeserver_url |-> homeserver_url,
               matrix_id |-> matrix_id]]

\* login(matrix_id, homeserver_url, access_token) with credential file f
LoginRun(f, matrix_id, homeserver_url, access_token, disc, prompt, res) ==
    LET args == [matrix_id |-> matrix_id, homeserver_url |-> homeserver_url,
                 access_token |-> access_token]
        done(steps, exc) == Command("login", args, f, steps, exc)
        saved(steps, token, url, mid) ==
            Outcome(done(steps \o <<FileOp("write"),
                                    Printed("Successfully logged in as "
                                            \o mid)>>, NoExc),
                    WrittenFile(token, url, mid))
    IN  IF Falsy(access_token)
        THEN IF Falsy(matrix_id)
             THEN Outcome(done(<<Printed("Please provide a matrix ID.")>>,
                               SystemExit), f)
             ELSE LET r == LoginWithPassword(matrix_id, homeserver_url,
                                             disc, prompt, res)
                  IN  IF r.exc # NoExc
                      THEN Outcome(done(r.steps, r.exc), f)
                      ELSE saved(r.steps, r.ret[2], r.ret[1], matrix_id)
        ELSE IF Falsy(homeserver_url)
             THEN Outcome(done(<<Printed("Please provide a --homeserver-url if logging in with an access token.")>>,
                               SystemExit), f)
             ELSE LET r == LoginWithAccessToken(access_token, homeserver_url,
                                                res)
                  IN  IF r.exc # NoExc
                      THEN Outcome(done(r.steps, r.exc), f)
                      ELSE saved(r.steps, r.ret[3], r.ret[2], r.ret[1])

\* the effect of one command on the credential file and the command record
Finished(o) ==
    /\ call' = o.call
    /\ creds' = o.creds
    /\ UNCHANGED <<env, inst, handles, task, inv, client>>

\* fractal auth login [matrix_id] [--homeserver-url] [--access-token]
Login(matrix_id, homeserver_url, access_token) ==
    \E o \in {LoginRun(creds, matrix_id, homeserver_url, access_token,
                       disc, prompt, res) :
                disc \in AuthDiscoveries, prompt \in Prompts,
                res \in AuthResults} :
        Finished(o)

\* whoami() with credential file f
WhoamiRun(f) ==
    LET done(steps, exc) == Outcome(Command("whoami", <<>>, f, steps, exc), f)
    IN  IF ~f.exists
        THEN done(<<Printed("You are not logged in.")>>, SystemExit)
        ELSE IF ~({"homeserver_url", "matrix_id"} \subseteq DOMAIN f.data)
        THEN done(<<Printed("You are not logged in.")>>, SystemExit)
        ELSE done(<<Printed("You are logged in as " \o f.data["matrix_id"]
                            \o " on " \o f.data["homeserver_url"])>>, NoExc)

\* fractal auth whoami
Whoami == Finished(WhoamiRun(creds))

\* the mutant of RemovedFile: the file stays on disk
RemovedFileKept(f) == f

\* os.remove(path)
RemovedFile(f) == NoFile

\* logout() with credential file f, the library answering the logout with res
LogoutRun(f, res) ==
    LET done(steps, exc) == Command("logout", <<>>, f, steps, exc)
    IN  IF ~f.exists
        THEN Outcome(done(<<Printed("You are not logged in.")>>, NoExc), f)
        ELSE IF "access_token" \notin DOMAIN f.data
        THEN Outcome(done(<<>>, KeyError("access_token")), f)
        ELSE IF "homeserver_url" \notin DOMAIN f.data
        THEN Outcome(done(<<>>, KeyError("homeserver_url")), f)
        ELSE LET steps == <<FileOp("remove"),
                            Request("logout", f.data["access_token"], res)>>
             IN  IF res = "raise"
                 THEN Outcome(done(steps, [type |-> "ClientConnectionError",
                                           msg  |-> ""]),
                              RemovedFile(f))
                 ELSE Outcome(done(steps \o <<Printed("Successfully logged out. Have a nice day.")>>,
                                   NoExc),
                              RemovedFile(f))

\* fractal auth logout
Logout == \E o \in {LogoutRun(creds, res) : res \in LogoutResults} : Finished(o)

\* show(key) with credential file f
ShowRun(f, key) ==
    LET done(steps, exc) ==
            Outcome(Command("show", [key |-> key], f, steps, exc), f)
    IN  IF ~f.exists
        THEN done(<<>>, FileNotFoundError)
        ELSE IF key \notin CredKeys
        THEN done(<<>>, NoExc)
        ELSE IF key \notin DOMAIN f.data
        THEN done(<<>>, KeyError(key))
        ELSE done(<<Printed(f.data[key])>>, NoExc)

\* fractal auth show <key>
Show(key) == Finished(ShowRun(creds, key))

InitAuth ==
    /\ env = NoEnv
    /\ inst = NoInst
    /\ handles = <<>>
    /\ task = [t \in Tasks |-> IdleTask]
    /\ inv = NoInvite
    /\ client = NoClient
    /\ call = NoCall
    /\ creds \in CredFiles

NextAuth ==
    \/ \E matrix_id \in LoginMatrixIds, homeserver_url \in LoginHomeservers,
          access_token \in LoginTokens :
          Login(matrix_id, homeserver_url, access_token)
    \/ Whoami
    \/ Logout
    \/ \E key \in ShowKeys : Show(key)

SpecAuth == InitAuth /\ [][NextAuth]_vars

---------------------------------------------------------------------------
(* Properties *)

ScopeTasks  == {t \in Tasks : task[t].kind = "scope"}
DirectTasks == {t \in Tasks : task[t].kind = "direct"}

\* a value that is unset or the empty string
Absent(x) == x = None \/ x = ""

\* the host of a URL: its network location without the port
UrlHost(url) == Split(Netloc(url), ":")[1]

HasUpper(s) == \E i \in 1..Len(s) : Char(s, i) \in UpperChars
HasLower(s) == \E i \in 1..Len(s) : Char(s, i) \in LowerChars

\* the client of a temporary scope is still in use: an activation of
\* get_homeserver_for_matrix_id on its owner's stack holds it
HeldByActivation(h) ==
    \E i \in DOMAIN task[handles[h].owner].stack :
        task[handles[h].owner].stack[i].client = h

\* C1: every client produced by entering a MatrixClient scope has close()
\* awaited once the scope has exited, by return or by exception, and so has
\* the temporary client of get_homeserver_for_matrix_id once that call is over.
C1_ClientClosedOnScopeExit ==
    /\ \A t \in ScopeTasks :
          (task[t].pc = "done" /\ task[t].client # 0)
              => handles[task[t].client].closed >= 1
    /\ \A h \in DOMAIN handles :
          (handles[h].temp /\ ~HeldByActivation(h)) => handles[h].closed >= 1

\* C2: with neither a homeserver URL nor a matrix identifier given or in the
\* environment, MatrixClient(...) raises KeyError naming MATRIX_HOMESERVER_URL,
\* and no client exists, no scope was entered and no request was made.
C2_KeyErrorBeforeAnything ==
    ( /\ inst.state # "none"
      /\ Absent(inst.args.hs) /\ Absent(env.hs)
      /\ Absent(inst.args.mid) /\ Absent(env.mid) )
    => /\ inst.state = "raised"
       /\ inst.exc.type = "KeyError"
       /\ IsSubstr("MATRIX_HOMESERVER_URL", inst.exc.msg)
       /\ inst.client = 0
       /\ handles = <<>>
       /\ \A t \in Tasks : task[t] = IdleTask

\* the constructor raised with nothing passed and nothing in the environment
C2_Witness ==
    /\ inst.state = "raised"
    /\ inst.args.hs = None /\ env.hs = None
    /\ inst.args.mid = None /\ env.mid = None

\* C3 as stated: a scope entry performs discovery exactly when the constructor
\* resolved no homeserver URL from its argument or the environment.
C3_DiscoveryIffNoneResolved ==
    \A t \in ScopeTasks : task[t].disc <=> Absent(inst.init_hs)

\* C3 amended: a scope entry performs discovery exactly when the instance
\* holds no homeserver URL at that moment (none resolved, and none stored by an
\* earlier entry); a client built after discovery has the discovered URL, and
\* an entry without discovery issues no request and uses the URL held.
C3_DiscoveryIffNoUrlHeld ==
    \A t \in ScopeTasks :
        /\ task[t].disc <=> Absent(task[t].entryHs)
        /\ (task[t].disc /\ task[t].client # 0)
              => /\ task[t].resp.kind = "ok"
                 /\ handles[task[t].client].homeserver = task[t].resp.v
        /\ ~task[t].disc
              => /\ task[t].reqs = <<>>
                 /\ task[t].client # 0
                 /\ handles[task[t].client].homeserver = task[t].entryHs

\* an entry that discovered and built its client, and a later entry of the
\* same instance that did not discover
C3_Witness ==
    \E t, u \in ScopeTasks :
        /\ task[t].disc /\ task[t].client # 0
        /\ ~task[u].disc /\ Absent(inst.init_hs) /\ task[u].client # 0

\* C4: the client's user is the matrix identifier exactly when no access token
\* but an identifier is resolved, and is left empty otherwise (so also when a
\* token is resolved and an identifier given); entering issues no login.
C4_UserSetOnlyWithoutToken ==
    \A t \in ScopeTasks :
        /\ task[t].client # 0 =>
              LET c == handles[task[t].client]
              IN  /\ (Absent(inst.access_token) /\ ~Absent(inst.matrix_id))
                        => c.user = inst.matrix_id
                  /\ ~Absent(inst.access_token) => c.user = ""
                  /\ Absent(inst.matrix_id) => c.user = ""
                  /\ c.access_token = inst.access_token
        /\ \A i \in DOMAIN task[t].reqs : task[t].reqs[i].op = "discovery_info"

\* an entry that discovered the homeserver and left the identifier as user
C4_Witness ==
    \E t \in ScopeTasks :
        /\ task[t].client # 0 /\ task[t].disc
        /\ handles[task[t].client].user = inst.matrix_id
        /\ inst.matrix_id = "@v:a.io"
        /\ Absent(inst.access_token)

\* the rule of C5 as stated: the argument when one was passed, else the
\* environment's value
ExplicitElseEnv(arg, envValue) == IF arg # None THEN arg ELSE envValue

\* the same value, an unset one and an empty one counting as the same
SameValue(a, b) == a = b \/ (Absent(a) /\ Absent(b))

\* the rule of C5 amended: the argument when one was passed and is not empty
NonEmptyElseEnv(arg, envValue) ==
    IF arg # None /\ arg # "" THEN arg ELSE envValue

\* C5 as stated: each of homeserver URL, matrix identifier and access token
\* is the constructor argument if passed, else the environment variable, else
\* absent (an empty result and an unset one are not told apart here).
C5_ExplicitArgumentWins ==
    inst.state = "made" =>
        /\ SameValue(inst.homeserver_url, ExplicitElseEnv(inst.args.hs, env.hs))
        /\ SameValue(inst.matrix_id, ExplicitElseEnv(inst.args.mid, env.mid))
        /\ SameValue(inst.access_token, ExplicitElseEnv(inst.args.tok, env.tok))

\* C5 amended: each of the three is the constructor argument if one was
\* passed and is non-empty, else the environment variable, else absent.
C5_NonEmptyArgumentWins ==
    inst.state # "none" =>
        /\ inst.homeserver_url = NonEmptyElseEnv(inst.args.hs, env.hs)
        /\ inst.matrix_id = NonEmptyElseEnv(inst.args.mid, env.mid)
        /\ inst.access_token = NonEmptyElseEnv(inst.args.tok, env.tok)

\* every argument passed, every variable set, and the arguments kept
C5_Witness ==
    /\ inst.state = "made"
    /\ inst.args.hs = "https://b.io" /\ env.hs = "http://hs.io:8008"
    /\ inst.args.mid = "@v:a.io" /\ env.mid = "@u:a.io"
    /\ inst.args.tok = "argtok" /\ env.tok = "envtok"
    /\ inst.homeserver_url = "https://b.io"

\* a direct call whose identifier contains "localhost"
DirectLocal(t) ==
    task[t].kind = "direct" /\ IsSubstr("localhost", task[t].mid)

\* C6 as stated: called with an identifier containing "localhost",
\* get_homeserver_for_matrix_id issues no discovery request and what it
\* returns is http://localhost:8008.
C6_LocalhostShortCircuits ==
    \A t \in Tasks :
        DirectLocal(t) =>
            /\ task[t].reqs = <<>>
            /\ task[t].out = "return" => task[t].ret.url = "http://localhost:8008"

\* C6 amended: called with an identifier containing "localhost", the function
\* does not parse the identifier, takes MATRIX_HOMESERVER_URL (or
\* http://localhost:8008 when that is unset) as the nominal URL, and returns
\* only after a discovery request, returning the URL that request reported; a
\* non-empty nominal URL is where its one request goes.
C6_LocalhostNominalThenDiscovery ==
    \A t \in Tasks :
        DirectLocal(t) =>
            /\ task[t].exc.type # "InvalidMatrixIdException"
            /\ task[t].nominal # None =>
                  task[t].nominal =
                      (IF env.hs = None THEN "http://localhost:8008" ELSE env.hs)
            /\ task[t].out = "return" =>
                  /\ task[t].reqs # <<>>
                  /\ task[t].resp.kind = "ok"
                  /\ task[t].ret.url = task[t].resp.v
            /\ ~Absent(task[t].nominal) =>
                  /\ Len(task[t].reqs) <= 1
                  /\ \A i \in DOMAIN task[t].reqs :
                        task[t].reqs[i].homeserver = task[t].nominal

\* "@u:localhost" with MATRIX_HOMESERVER_URL set: one request to that URL,
\* and the URL it reported returned
C6_Witness ==
    \E t \in Tasks :
        /\ DirectLocal(t) /\ task[t].mid = "@u:localhost"
        /\ env.hs = "http://hs.io:8008"
        /\ task[t].out = "return"
        /\ Len(task[t].reqs) = 1
        /\ task[t].reqs[1].homeserver = "http://hs.io:8008"
        /\ task[t].ret.url = "https://m.a.io"

\* C7: when discovery_info returns the error variant the call raises
\* WellKnownNotFoundException (".well-known" in its message) for the reason
\* "Not Found" and UnknownDiscoveryInfoException carrying the reason for any
\* other reason, and returns no URL.
C7_DiscoveryErrorRaises ==
    \A t \in Tasks :
        task[t].resp.kind = "error" =>
            /\ task[t].pc = "done"
            /\ task[t].out = "raise"
            /\ task[t].ret = NoRet
            /\ IF task[t].resp.v = "Not Found"
               THEN /\ task[t].exc.type = "WellKnownNotFoundException"
                    /\ IsSubstr(".well-known", task[t].exc.msg)
               ELSE /\ task[t].exc.type = "UnknownDiscoveryInfoException"
                    /\ IsSubstr(task[t].resp.v, task[t].exc.msg)

\* both error outcomes cannot be in one state with a single caller: the
\* "Not Found" one
C7_Witness ==
    \E t \in DirectTasks :
        /\ task[t].resp = [kind |-> "error", v |-> "Not Found"]
        /\ task[t].exc.type = "WellKnownNotFoundException"

C9_NonAdminInviteRejected ==
    (inv.state = "done" /\ ~inv.admin) =>
        /\ inv.exc = [type |-> "Exception",
                      msg  |-> "FIXME: Only admin invites are supported for now."]
        /\ inv.calls = <<>>

\* a non-admin invite of a well-formed lowercase identifier
C9_Witness ==
    /\ inv.state = "done" /\ ~inv.admin
    /\ inv.user_id = "@a:a"
    /\ inv.calls = <<>>

\* C10: invite with admin = true and an identifier whose local part has an
\* uppercase letter raises "Matrix ids must be lowercase." and makes no
\* library call.
C10_MixedCaseLocalPartRejected ==
    ( /\ inv.state = "done" /\ inv.admin
      /\ ParseOk(inv.user_id)
      /\ HasUpper(parse_matrix_id(inv.user_id)[1]) )
    => /\ inv.exc = [type |-> "Exception", msg |-> "Matrix ids must be lowercase."]
       /\ inv.calls = <<>>

\* an admin invite of an identifier with a mixed-case local part
C10_Witness ==
    /\ inv.state = "done" /\ inv.admin
    /\ inv.user_id = "@aB:a"
    /\ inv.exc.msg = "Matrix ids must be lowercase."

\* C11: invite with admin = true and an identifier without the leading "@"
\* raises InvalidMatrixIdException "<id> is not a valid Matrix ID." and makes
\* no library call.
C11_MissingAtRejected ==
    ( /\ inv.state = "done" /\ inv.admin
      /\ Len(inv.user_id) > 0 /\ Char(inv.user_id, 1) # "@" )
    => /\ inv.exc = InvalidMatrixIdException(inv.user_id)
       /\ inv.calls = <<>>

\* the three library calls of invite(user_id, room_id), in the order of the
\* code
InviteSteps(user_id, room_id) ==
    << [op |-> "room_invite", room_id |-> room_id, arg |-> user_id],
       [op |-> "room_get_state_event", room_id |-> room_id,
        arg |-> "m.room.power_levels"],
       [op |-> "room_put_state", room_id |-> room_id,
        arg |-> "m.room.power_levels"] >>

\* an identifier the checks of invite let through
AcceptedId(user_id) ==
    /\ Len(Split(user_id, "@")) >= 2
    /\ IsLower(Split(user_id, "@")[2])

\* C12: an admin invite of an accepted identifier calls room_invite, then
\* room_get_state_event for m.room.power_levels, then room_put_state, each at
\* most once and in this order; an error result is the last result taken and
\* is raised with its message; a call that made fewer than three steps has
\* raised; the room_invite call stays the first call made and nothing but
\* the three calls is made (no rollback).
C12_InviteStepsInOrder ==
    (inv.state = "done" /\ inv.admin /\ AcceptedId(inv.user_id)) =>
        LET n == Len(inv.calls)
        IN  /\ n \in 1..3
            /\ inv.calls = SubSeq(InviteSteps(inv.user_id, inv.room_id), 1, n)
            /\ Len(inv.results) = n
            /\ \A i \in 1..n :
                  inv.results[i].kind = "error" =>
                      /\ i = n
                      /\ inv.exc = PyException(inv.results[i].message)
            /\ n < 3 => inv.exc # NoExc
            /\ inv.exc = NoExc => inv.written # <<>>

\* the invite was sent, fetching the power levels failed, nothing was written
C12_Witness ==
    /\ inv.state = "done" /\ inv.admin /\ inv.user_id = "@a:a"
    /\ Len(inv.calls) = 2
    /\ inv.calls[1].op = "room_invite"
    /\ inv.results[2].kind = "error"
    /\ inv.exc = PyException("state refused")

\* the last wrapper operation called was op, and it is over
Called(op) == call.state = "done" /\ call.op = op

\* the library call of the operation was made and answered with this kind
Answered(kind) == Len(call.results) >= 1 /\ call.results[1].kind = kind

\* C13: when register_with_token returns, the client's access token is the
\* one it had before the call, and what is returned is the token of the
\* registration response, which the library had put on the client.
C13_TokenRestoredAfterRegistration ==
    (Called("register_with_token") /\ call.exc = NoExc) =>
        /\ Answered("ok")
        /\ client.access_token = call.before.access_token
        /\ call.ret = call.results[1].access_token

\* a registration that returned the new user's token and left the caller's
C13_Witness ==
    /\ Called("register_with_token") /\ call.exc = NoExc
    /\ call.before.access_token = "admintok"
    /\ call.ret = "newtok"
    /\ client.access_token = "admintok"

\* the POSTs among the calls a wrapper operation made
Posts == {i \in DOMAIN call.calls : call.calls[i].op = "POST"}

\* C14: register_with_token makes the rate-limit override POST at most once,
\* and makes it exactly when the registration succeeded and the flag is
\* true; the POST comes after the registration, is for the lower-cased
\* matrix id and bears the token the client had before the call; when the
\* registration returns the error variant no POST is made and the call
\* raises with the library's message.
C14_DisableRatelimitingAfterRegistration ==
    Called("register_with_token") =>
        /\ Cardinality(Posts) <= 1
        /\ (Posts # {}) <=> (Answered("ok") /\ call.args.disable_ratelimiting)
        /\ \A i \in Posts :
              /\ i = 2
              /\ call.calls[i].bearer = call.before.access_token
              /\ call.calls[i].url =
                    call.before.homeserver \o "/_synapse/admin/v1/users/"
                    \o Lower(call.args.matrix_id) \o "/override_ratelimit"
        /\ Answered("error") =>
              /\ Len(call.calls) = 1
              /\ call.exc = PyException(call.results[1].message)

\* "@Ab:A.io" registered with the flag set: one POST, for "@ab:a.io", with
\* the caller's token
C14_Witness ==
    /\ Called("register_with_token")
    /\ call.args = [matrix_id |-> "@Ab:A.io", disable_ratelimiting |-> TRUE]
    /\ call.before.access_token = "admintok"
    /\ Len(call.calls) = 2
    /\ call.calls[2].bearer = "admintok"
    /\ IsSubstr("/@ab:a.io/", call.calls[2].url)

\* C15: get_latest_sync_token with no room id passed, on a client with no
\* room id, raises GetLatestSyncTokenError containing "No room id provided"
\* and room_messages is not called.
C15_NoRoomIdRejected ==
    ( /\ Called("get_latest_sync_token")
      /\ Absent(call.args.room_id) /\ Absent(call.before.room_id) )
    => /\ call.exc.type = "GetLatestSyncTokenError"
       /\ IsSubstr("No room id provided", call.exc.msg)
       /\ call.calls = <<>>

\* called without argument on a client constructed without room id
C15_Witness ==
    /\ Called("get_latest_sync_token")
    /\ call.args.room_id = None /\ call.before.room_id = None
    /\ call.exc.type = "GetLatestSyncTokenError"

\* C16: with a room id passed or configured, get_latest_sync_token makes
\* exactly one room_messages request, with limit 1, backward direction and
\* empty start, for the room id passed if one (a non-empty one) is passed and
\* else for the client's room id; on a success response it returns that
\* response's start cursor.
C16_OneBackwardRequest ==
    ( /\ Called("get_latest_sync_token")
      /\ ~(Absent(call.args.room_id) /\ Absent(call.before.room_id)) )
    => /\ call.calls =
            << [op |-> "room_messages",
                room_id |-> IF ~Absent(call.args.room_id)
                            THEN call.args.room_id
                            ELSE call.before.room_id,
                start |-> "", limit |-> 1, direction |-> "back"] >>
       /\ Answered("ok") =>
             /\ call.exc = NoExc
             /\ call.ret = call.results[1].start

\* a room id passed to a client that has another one: the request is for
\* the one passed, and its cursor is returned
C16_Witness ==
    /\ Called("get_latest_sync_token")
    /\ call.args.room_id = "!r:a.io" /\ call.before.room_id = "!c:a.io"
    /\ call.calls[1].room_id = "!r:a.io"
    /\ call.ret = "t1"

\* C17: when room_messages returns the error variant, get_latest_sync_token
\* raises GetLatestSyncTokenError with the library's message in its text and
\* returns nothing.
C17_RoomMessagesErrorRaises ==
    (Called("get_latest_sync_token") /\ Answered("error")) =>
        /\ call.exc.type = "GetLatestSyncTokenError"
        /\ IsSubstr(call.results[1].message, call.exc.msg)
        /\ call.results[1].message # "" =>
              call.exc.msg = "Failed to get latest sync token: "
                             \o call.results[1].message
        /\ call.ret = None

\* room_messages answered RoomMessagesError("Room Message Error")
C17_Witness ==
    /\ Called("get_latest_sync_token")
    /\ Answered("error")
    /\ call.results[1].message = "Room Message Error"
    /\ IsSubstr("Room Message Error", call.exc.msg)

\* the wrapper operations of this client that call the protocol library
LibraryOperations ==
    {"send_message", "get_latest_sync_token", "get_room_invites", "join_room",
     "register_with_token", "upload_file"}

\* C18: whenever the library call of a wrapper operation returns the error
\* variant, the operation raises and the text of what it raises contains the
\* library's message.
C18_ErrorVariantRaisesWithMessage ==
    ( /\ call.state = "done" /\ call.op \in LibraryOperations
      /\ Answered("error") )
    => /\ call.exc # NoExc
       /\ IsSubstr(call.results[1].message, call.exc.msg)

\* the library's exception was one `except Exception` catches
RaisedException ==
    Answered("raise") /\ call.results[1].base = "Exception"

\* C19: when room_send returns an error response or raises an Exception,
\* send_message returns normally, having called room_send once and logged
\* one error.
C19_SendMessageNeverPropagates ==
    (Called("send_message") /\ (Answered("error") \/ RaisedException)) =>
        /\ call.exc = NoExc
        /\ call.ret = None
        /\ Len(call.calls) = 1
        /\ call.calls[1].op = "room_send"
        /\ Cardinality({i \in DOMAIN call.logs : call.logs[i] = "error"}) = 1

\* room_send raised, send_message logged the error and returned
C19_Witness ==
    /\ Called("send_message")
    /\ RaisedException
    /\ call.exc = NoExc
    /\ call.logs = <<"debug", "error">>

\* "@", a non-empty local part, ":" and a non-empty domain, with no other
\* colon in the string
WellFormedId(s) ==
    \E i \in 3..(Len(s) - 1) :
        /\ Char(s, 1) = "@"
        /\ Char(s, i) = ":"
        /\ \A j \in 1..Len(s) : j # i => Char(s, j) # ":"

OneBearerPost(url) ==
    /\ Len(call.calls) = 1
    /\ call.calls[1].op = "POST"
    /\ call.calls[1].url = url
    /\ call.calls[1].bearer = call.before.access_token

\* C21: disable_ratelimiting and generate_registration_token each make
\* exactly one POST carrying the client's token as bearer.  On an OK response
\* disable_ratelimiting returns nothing and generate_registration_token
\* returns the token field of the body; on a response that is not OK both
\* raise and return nothing, disable_ratelimiting with a message holding the
\* status and the body, generate_registration_token after one error log
\* holding the status and the body.
C21_AdminPostContract ==
    /\ Called("disable_ratelimiting") =>
          LET response == call.results[1]
          IN  /\ OneBearerPost(call.before.homeserver
                    \o "/_synapse/admin/v1/users/" \o call.args
                    \o "/override_ratelimit")
              /\ call.ret = None
              /\ response.ok => call.exc = NoExc
              /\ ~response.ok =>
                    /\ call.exc.type = "Exception"
                    /\ IsSubstr(response.status, call.exc.msg)
                    /\ IsSubstr(response.text, call.exc.msg)
    /\ Called("generate_registration_token") =>
          LET response == call.results[1]
          IN  /\ OneBearerPost(call.before.homeserver
                    \o "/_synapse/admin/v1/registration_tokens/new")
              /\ (response.ok /\ "token" \in DOMAIN response.json) =>
                    /\ call.exc = NoExc
                    /\ call.ret = response.json.token
                    /\ call.logs = <<>>
              /\ ~response.ok =>
                    /\ call.exc = PyException("")
                    /\ call.ret = None
                    /\ call.logs = <<"error">>
                    /\ IsSubstr(response.status, call.logged)
                    /\ IsSubstr(response.text, call.logged)

\* the token POST was refused with 403: one error log, then the exception
C21_Witness ==
    /\ Called("generate_registration_token")
    /\ ~call.results[1].ok
    /\ call.logs = <<"error">>
    /\ call.exc.type = "Exception"

\* the effects of this kind among the steps of the last command
StepsOf(kind) == {i \in 1..Len(call.steps) : call.steps[i].kind = kind}

\* the last command wrote / removed the credential file at these steps
FileSteps(what) == {i \in StepsOf("file") : call.steps[i].what = what}

\* the keys of the credential file a command reads
KeysRead ==
    IF call.op = "whoami" THEN {"homeserver_url", "matrix_id"}
    ELSE IF call.op = "logout" THEN {"access_token", "homeserver_url"}
    ELSE IF call.op = "show" THEN {call.args.key} \cap CredKeys
    ELSE {}

\* no credentials were stored for the last command: the file was missing
\* or lacked a key the command reads
NotLoggedIn ==
    \/ ~call.before.exists
    \/ ~(KeysRead \subseteq DOMAIN call.before.data)

\* C22: logout, whoami and show, run while no credentials are stored (the
\* credential file is missing or lacks a key the command reads), print
\* "You are not logged in." and end the process by exit with a non-zero
\* code, never by an uncaught exception.
C22_NotLoggedInIsFriendly ==
    (call.state = "done" /\ call.op \in {"logout", "whoami", "show"}
       /\ NotLoggedIn) =>
        /\ \E i \in StepsOf("print") :
              call.steps[i].what = "You are not logged in."
        /\ call.exit # 0
        /\ call.exc = SystemExit

\* C23: login writes the credential file only after the library answered
\* the password login or the whoami of the supplied token with success.
\* When the library answers with an error (MatrixLoginError), when neither
\* access token nor matrix id is given, or when an access token is given
\* without homeserver URL, the credential file is as it was before the
\* command, and in the two missing-argument cases no request was made.
C23_WriteOnlyAfterAuthentication ==
    Called("login") =>
        LET a == call.args
            missing ==
                \/ Absent(a.access_token) /\ Absent(a.matrix_id)
                \/ ~Absent(a.access_token) /\ Absent(a.homeserver_url)
        IN  /\ \A i \in FileSteps("write") :
                  \E j \in 1..(i - 1) :
                      /\ call.steps[j].kind = "net"
                      /\ call.steps[j].what \in {"login", "whoami"}
                      /\ call.steps[j].res = "ok"
            /\ FileSteps("write") = {} => creds = call.before
            /\ (\E j \in StepsOf("net") :
                    /\ call.steps[j].what \in {"login", "whoami"}
                    /\ call.steps[j].res = "error") =>
                  /\ call.exc.type = "MatrixLoginError"
                  /\ FileSteps("write") = {}
            /\ missing =>
                  /\ FileSteps("write") = {}
                  /\ StepsOf("net") = {}
                  /\ call.exc = SystemExit

\* a login with a token the homeserver did not know left the stored
\* credentials as they were
C23_Witness ==
    /\ Called("login")
    /\ call.before.exists
    /\ call.exc.type = "MatrixLoginError"
    /\ \E j \in StepsOf("net") : call.steps[j].what = "whoami"
    /\ creds = call.before

\* C24: the power-levels content invite writes back is the content it
\* fetched with users[user_id] = 100: every other user keeps the level
\* fetched, no other user appears, and every other key is as fetched.
C24_OnlyTargetLevelChanged ==
    (inv.state = "done" /\ inv.written # <<>>) =>
        LET f == inv.fetched[1]
            w == inv.written[1]
        IN  /\ Len(inv.written) = 1 /\ Len(inv.fetched) = 1
            /\ DOMAIN w.users = DOMAIN f.users \cup {inv.user_id}
            /\ w.users[inv.user_id] = 100
            /\ \A u \in DOMAIN f.users \ {inv.user_id} : w.users[u] = f.users[u]
            /\ w = [f EXCEPT !.users = w.users]

\* "@a:a" and "@o:a" both had level 50: "@a:a" is written with 100, "@o:a"
\* with 50
C24_Witness ==
    /\ inv.state = "done" /\ inv.user_id = "@a:a"
    /\ inv.written # <<>>
    /\ inv.fetched[1].users = [u \in {"@o:a", "@a:a"} |-> 50]
    /\ inv.written[1].users["@a:a"] = 100
    /\ inv.written[1].users["@o:a"] = 50

\* C25: when the sync of get_room_invites succeeds, the client's next_batch
\* after the call is the one it had before it, and the invited rooms of the
\* response are returned; when the sync returns the error variant the call
\* raises with the library's message.
C25_NextBatchKept ==
    Called("get_room_invites") =>
        /\ Answered("ok") =>
              /\ call.exc = NoExc
              /\ client.next_batch = call.before.next_batch
              /\ call.ret = call.results[1].invite
        /\ Answered("error") => call.exc = PyException(call.results[1].message)

\* the sync answered with position "s2" and the client is still at "s1"
C25_Witness ==
    /\ Called("get_room_invites")
    /\ Answered("ok")
    /\ call.before.next_batch = "s1"
    /\ call.results[1].next_batch = "s2"
    /\ client.next_batch = "s1"

\* C26: logout, run while access token and homeserver URL are stored,
\* removes the credential file and then makes exactly one logout request
\* with the stored token; whether the request succeeds, is answered with an
\* error or raises, the credential file is absent afterwards.
C26_LogoutRemovesFileFirst ==
    (Called("logout") /\ call.before.exists
       /\ {"access_token", "homeserver_url"} \subseteq DOMAIN call.before.data)
    =>  /\ ~creds.exists
        /\ Cardinality(FileSteps("remove")) = 1
        /\ Cardinality(StepsOf("net")) = 1
        /\ \A j \in StepsOf("net") :
              /\ call.steps[j].what = "logout"
              /\ call.steps[j].arg = call.before.data["access_token"]
              /\ \A i \in FileSteps("remove") : i < j

\* the logout request raised: the file is gone all the same
C26_Witness ==
    /\ Called("logout")
    /\ call.before.exists
    /\ \E j \in StepsOf("net") : call.steps[j].res = "raise"
    /\ call.exc # NoExc
    /\ ~creds.exists

\* the requests create_or_modify_user made with this method
Requests(method) == {i \in 1..Len(call.calls) : call.calls[i].op = method}

\* C27: create_or_modify_user makes its PUT only for a user id holding both
\* "@" and ":" and only after the username-availability GET was answered
\* with success.  A user id lacking "@" or ":" raises ValueError with no
\* request made; a GET answered 400 raises ValueError with no PUT; a GET
\* answered with any other HTTP error raises that error with no PUT.
C27_PutOnlyAfterAvailable ==
    Called("create_or_modify_user") =>
        LET user_id == call.args.user_id
            wellformed == IsSubstr("@", user_id) /\ IsSubstr(":", user_id)
        IN  /\ Requests("PUT") # {} =>
                  /\ wellformed
                  /\ Requests("GET") = {1} /\ Requests("PUT") = {2}
                  /\ call.results[1].kind = "ok"
            /\ ~wellformed =>
                  /\ call.exc.type = "ValueError"
                  /\ call.calls = <<>>
            /\ (wellformed /\ call.results[1].kind = "http_error") =>
                  /\ Len(call.calls) = 1
                  /\ call.calls[1].op = "GET"
                  /\ IF call.results[1].status = "400"
                     THEN call.exc.type = "ValueError"
                     ELSE call.exc = [type |-> "HTTPError",
                                      msg  |-> call.results[1].status]

\* "@a:a" was free: the GET, then the PUT
C27_Witness ==
    /\ Called("create_or_modify_user")
    /\ call.args.user_id = "@a:a"
    /\ Len(call.calls) = 2
    /\ call.calls[2].op = "PUT"
    /\ call.exc = NoExc

\* C28: every invocation of the decorated function has its own client open
\* as long as its body runs, the client an invocation closes at its exit is
\* its own, and every client made for an invocation is closed once when the
\* invocation is over, never twice.
C28_OwnClientPerInvocation ==
    /\ \A t \in ScopeTasks :
          /\ task[t].pc = "body" => handles[task[t].client].closed = 0
          /\ (task[t].pc = "done" /\ task[t].client # 0) =>
                /\ task[t].closedAtExit = task[t].client
                /\ handles[task[t].client].closed = 1
    /\ \A h \in DOMAIN handles : handles[h].closed <= 1

\* C29: entering a MatrixClient scope makes at most one discovery request:
\* the temporary MatrixClient of get_homeserver_for_matrix_id never calls
\* get_homeserver_for_matrix_id itself, so the calls never nest and the
\* recursion limit is never hit.
C29_AtMostOneDiscovery ==
    \A t \in ScopeTasks :
        /\ Len(task[t].reqs) <= 1
        /\ Len(task[t].stack) <= 1
        /\ task[t].exc # RecursionError

\* C30: an admin invite of an identifier whose local part has no uppercase
\* letter passes the checks and calls room_invite, whatever the case of the
\* domain and whether or not the local part has letters.
C30_LowercaseLocalPartAccepted ==
    ( /\ inv.state = "done" /\ inv.admin
      /\ ParseOk(inv.user_id)
      /\ ~HasUpper(parse_matrix_id(inv.user_id)[1]) )
    => /\ Len(inv.calls) >= 1
       /\ inv.calls[1].op = "room_invite"
       /\ inv.exc.msg # "Matrix ids must be lowercase."

====
